---- MODULE Spec2Model ----
(***************************************************************************)
(* Model of the review-rag query pipeline: RAGService.Query               *)
(* (internal/service/rag.go), the embedding client (internal/embedding)   *)
(* and postgresRepository.RAGRetrieval (internal/storage/postgres.go).    *)
(*                                                                         *)
(* Numbers.  Distances, similarities and confidence floors are exact      *)
(* rationals in hundredths (Scale = 100 stands for 1.0).  A confidence is *)
(* a fraction [num, den] of hundredths in lowest terms, so the mean of    *)
(* any number of similarities is represented exactly; float64 rounding    *)
(* error is not modelled.                                                 *)
(*                                                                         *)
(* Vectors.  Embeddings are integer vectors of Euclidean norm 10, for     *)
(* which pgvector's cosine distance 1 - a.b/(|a||b|) is exactly           *)
(* (100 - a.b) hundredths.                                                *)
(***************************************************************************)
EXTENDS Integers, Sequences, FiniteSets, TLC

VARIABLES
    config,            \* RAGService.config (TopK, MinConfidence)
    clean_reviews,     \* ids of the rows of table clean_reviews
    pc,                \* position of each request inside Query
    query,             \* the types.RAGQuery of each request
    queryEmbedding,    \* result of GenerateEmbedding, per request
    retrievedReviews,  \* result of RAGRetrieval, per request
    response,          \* *types.RAGResponse returned by Query, per request
    err,               \* error returned by Query, per request
    embedCalls,        \* GenerateEmbedding invocations, per request
    retrievalCalls,    \* RAGRetrieval invocations, per request
    mockReviews,       \* what MockRepository.RAGRetrieval is set to return
    mockResponse,      \* what Query returned against the mocks
    content_null,      \* ids of the clean_reviews rows whose content_clean is NULL
    storeCall,         \* the last call made on the repository itself
    storeResult,       \* what that call returned
    body,              \* the HTTP request HandleRAGQuery was given, per request
    ctxErr,            \* ctx.Err() of the request's context ("" while live)
    httpStatus,        \* status line sent to the client (0: none yet)
    encodeFailed       \* json.NewEncoder(w).Encode returned an error

vars == <<config, clean_reviews, pc, query, queryEmbedding, retrievedReviews,
          response, err, embedCalls, retrievalCalls, mockReviews, mockResponse,
          content_null, storeCall, storeResult,
          body, ctxErr, httpStatus, encodeFailed>>

storeVars == <<storeCall, storeResult>>

httpVars == <<body, ctxErr, httpStatus, encodeFailed>>

pipelineVars == <<pc, query, queryEmbedding, retrievedReviews, response, err,
                  embedCalls, retrievalCalls>>

mockVars == <<mockReviews, mockResponse>>

(***************************************************************************)
(* Bounds and input sets                                                   *)
(***************************************************************************)
\* number of rows the review tables can hold
MaxRows == 3

\* longest list the mock repository returns
MaxLen == 3

\* longest list of review ids given to GetReviewDetails
MaxIDs == 2

\* 1.0 in hundredths
Scale == 100

\* the requests in flight, each served by its own goroutine
Requests == {"r1", "r2"}

\* query texts
Queries == {"What do users think about the app?", "What are the main complaints?"}

\* tenant ids a caller of Query can pass; "" is the unspecified tenant
AppIDs == {"com.test.app", "com.other.app", ""}

\* rag.top_k values of the configuration (0: key absent)
TopKs == {0, 2}

\* rag.min_confidence values of the configuration, in hundredths;
\* Load accepts any float, so a floor above 1.0 is a possible configuration
MinConfidences == {0, 70, 150}

\* embeddings the remote provider can answer with
QueryVecs == {<<10, 0>>, <<6, 8>>}

\* causes of a failed GenerateEmbedding
EmbedCauses == {"embedding service returned status 500"}

\* causes of a failed RAGRetrieval
RetrievalCauses == {"failed to execute RAG retrieval query", "error iterating rows"}

\* ratings and similarities of the reviews the mock repository returns
MockRatings == 1..5

MockSimilarities == {-30, 80, 90}

\* nil pointer / nil error
Nil == [nil |-> TRUE]

\* value of query before the request has arrived
NoQuery == [Query |-> "", AppID |-> ""]

\* value of storeCall before any call on the repository
NoCall == [op |-> ""]

\* value of body before the HTTP request has arrived
NoBody == [method |-> "", json |-> "", query |-> "", appId |-> ""]

(***************************************************************************)
(* Arithmetic helpers                                                      *)
(***************************************************************************)
RECURSIVE GCD(_, _)
GCD(a, b) == IF b = 0 THEN a ELSE GCD(b, a % b)

Abs(n) == IF n < 0 THEN -n ELSE n

\* the float64 value n/d hundredths, as a fraction in lowest terms (d > 0)
Frac(n, d) ==
    LET g == GCD(Abs(n), d)
    IN  IF n = 0 THEN [num |-> 0, den |-> 1] ELSE [num |-> n \div g, den |-> d \div g]

FracLess(x, y) == x.num * y.den < y.num * x.den

FracLeq(x, y) == x.num * y.den <= y.num * x.den

RECURSIVE SumSimilarity(_)
SumSimilarity(reviews) ==
    IF reviews = <<>> THEN 0
    ELSE Head(reviews).Similarity + SumSimilarity(Tail(reviews))

RECURSIVE SumRating(_)
SumRating(reviews) ==
    IF reviews = <<>> THEN 0
    ELSE Head(reviews).Rating + SumRating(Tail(reviews))

(***************************************************************************)
(* Embedding client (internal/embedding)                                   *)
(***************************************************************************)
\* crypto/sha256 of the texts the model uses, hex encoded
Sha256Hex(text) ==
    CASE text = "What do users think about the app?" ->
           "126ead8a9abb24615b172c9981face82a025e4197bbb0a81f73a8a1a3a5801c9"
      [] text = "What are the main complaints?" ->
           "24a28b5543bf806cdef569608292818aa511a375a5a46fbed6e4cd4733026ef2"
      [] text = "com.test.app" ->
           "ad8a6e3540ab377dc529850ac8711f1a0686263dbceca15bf86d6bd9d327b0cc"
      [] text = "com.other.app" ->
           "ed6f9a1c827d469251cc53d7018a4d616deab2c70c250765987e488ecabf2c53"
      [] text = "" ->
           "e3b0c44298fc1c149afbf4c8996fb92427ae41e4649b934ca495991b7852b855"

GetQueryHash(text) == Sha256Hex(text)

(***************************************************************************)
(* Store (internal/storage/postgres.go)                                    *)
(***************************************************************************)
\* review ids the tables can hold
ReviewIDs == 1..MaxRows

\* clean_reviews.app_id of review i
AppOf(i) == IF i % 2 = 1 THEN "com.test.app" ELSE "com.other.app"

\* clean_reviews.rating of review i
RatingOf(i) == ((3 * i) % 5) + 1

\* review_embeddings.content_vec of review i
VecOf(i) ==
    CASE i % 4 = 1 -> <<10, 0>>
      [] i % 4 = 2 -> <<8, 6>>
      [] i % 4 = 3 -> <<-6, -8>>
      [] OTHER     -> <<10, 0>>

\* pgvector's <=> (cosine distance) in hundredths, for vectors of norm 10
CosineDistance(a, b) == Scale - (a[1] * b[1] + a[2] * b[2])

\* FROM review_embeddings re JOIN clean_reviews cr ON cr.id = re.review_id:
\* every review id has an embedding row, so the join is over clean_reviews
JoinedRows(cr) == {i \in ReviewIDs : i \in cr}

RowMatchesAnyTenant(i, appID) == TRUE \/ AppOf(i) = appID

\* WHERE ($3 IS NULL OR cr.app_id = $3): appID is a Go string, which pgx
\* sends as a text value, never as NULL, so $3 IS NULL is false
RowMatches(i, appID) ==
    LET isNull == FALSE
    IN  isNull \/ AppOf(i) = appID

\* clean_reviews.content_clean of review i, when it is not NULL
ContentCleanOf(i) == "clean text of review " \o ToString(i)

\* rows.Scan and lines 326-329: one RetrievedReview per row
ScanRow(i, queryVec) ==
    LET distance == CosineDistance(VecOf(i), queryVec)
    IN  [ID |-> i, AppID |-> AppOf(i), Content |-> ContentCleanOf(i),
         Rating |-> RatingOf(i),
         Distance |-> distance, Similarity |-> Scale - distance]

\* ORDER BY re.content_vec <=> $1: every order of the rows S by ascending
\* distance; rows at equal distance come in any order
RECURSIVE Orderings(_, _)
Orderings(S, queryVec) ==
    IF S = {} THEN {<<>>}
    ELSE LET d(i) == CosineDistance(VecOf(i), queryVec)
             nearest == {i \in S : \A j \in S : d(i) <= d(j)}
         IN  UNION {{<<i>> \o t : t \in Orderings(S \ {i}, queryVec)} : i \in nearest}

\* LIMIT $2
Limit(s, n) == SubSeq(s, 1, IF Len(s) < n THEN Len(s) ELSE n)

\* default of topK when the caller passes a non-positive value
DefaultTopK == 20

\* the id lists the SELECT of RAGRetrieval can yield
RAGRetrievalRows(cr, queryVec, topK, appID) ==
    LET k == IF topK <= 0 THEN DefaultTopK ELSE topK
        matching == {i \in JoinedRows(cr) : RowMatches(i, appID)}
    IN  {Limit(o, k) : o \in Orderings(matching, queryVec)}

\* rows.Scan(..., &review.Content, ...): Content is a string, and pgx
\* cannot scan NULL into a string, so a row whose content_clean is NULL
\* makes Scan return an error
ScanFails(o, nulls) == \E n \in 1..Len(o) : o[n] \in nulls

\* the row lists RAGRetrieval can return without error
RAGRetrieval(cr, nulls, queryVec, topK, appID) ==
    {[n \in 1..Len(o) |-> ScanRow(o[n], queryVec)] :
        o \in {l \in RAGRetrievalRows(cr, queryVec, topK, appID) : ~ScanFails(l, nulls)}}

\* the errors RAGRetrieval returns because of the rows it scans
RAGRetrievalScanErrors(cr, nulls, queryVec, topK, appID) ==
    {"failed to scan review" :
        o \in {l \in RAGRetrievalRows(cr, queryVec, topK, appID) : ScanFails(l, nulls)}}

\* fmt.Errorf(msg + ": %w", err) of the repository
StoreError(msg) == [msg |-> msg]

\* SELECT ... 1 - (re.content_vec <=> $1) AS similarity and the Scan of
\* SearchSimilarReviews: distance is scanned into a local variable and only
\* review.Similarity is assigned, so Distance and the other fields keep
\* their zero values
ScanSimilarRow(i, queryVec) ==
    [ID |-> i, AppID |-> "", Content |-> "", Rating |-> RatingOf(i),
     Distance |-> 0, Similarity |-> Scale - CosineDistance(VecOf(i), queryVec)]

\* The outcomes of SearchSimilarReviews.  Its statement starts with a SET,
\* compares re.app_id with $1 (the parameter bound to the query vector) and
\* never names $2, to which appID is bound: whether the database rejects the
\* statement, and which embeddings it selects if it does not, is not fixed
\* by the code.  The outcome is an error, or the rows of any set of
\* embeddings in ascending distance, at most topN of them.
SearchSimilarReviews(queryVec, appID, topN) ==
    {[reviews |-> <<>>, err |-> StoreError("failed to query similar reviews")]}
    \cup {[reviews |-> [n \in 1..Len(Limit(o, topN)) |-> ScanSimilarRow(o[n], queryVec)],
           err |-> Nil] :
             o \in UNION {Orderings(S, queryVec) : S \in SUBSET ReviewIDs}}

\* clean_reviews.content_en of review i; "" stands for NULL
ContentEnOf(i) == IF i % 2 = 1 THEN "english text of review " \o ToString(i) ELSE ""

\* COALESCE(cr.content_en, cr.content_clean); "" stands for NULL
CoalescedContent(i, nulls) ==
    IF ContentEnOf(i) # "" THEN ContentEnOf(i)
    ELSE IF i \in nulls THEN "" ELSE ContentCleanOf(i)

\* The outcome of GetReviewDetails.  The statement is built from
\* placeholders[0] alone while every id is passed as an argument, so with
\* two ids or more the argument count does not match the statement and
\* db.Query fails.  With exactly one id the database is taken to match it.
GetReviewDetails(cr, nulls, reviewIDs) ==
    IF Len(reviewIDs) = 0 THEN [details |-> <<>>, err |-> Nil]
    ELSE IF Len(reviewIDs) # 1
        THEN [details |-> <<>>, err |-> StoreError("failed to query review details")]
    ELSE LET rows == {i \in cr : i = reviewIDs[1]}
         IN  IF \E i \in rows : CoalescedContent(i, nulls) = ""
             THEN [details |-> <<>>, err |-> StoreError("failed to scan review detail")]
             ELSE [details |-> [i \in rows |->
                                  [ID |-> i, Content |-> CoalescedContent(i, nulls),
                                   Rating |-> RatingOf(i)]],
                   err |-> Nil]

(***************************************************************************)
(* Query orchestrator (internal/service/rag.go)                            *)
(***************************************************************************)
PositiveCountFrom3(reviews) == Len(SelectSeq(reviews, LAMBDA r : r.Rating >= 3))

\* positiveCount after the loop of generateAnswer
PositiveCount(reviews) == Len(SelectSeq(reviews, LAMBDA r : r.Rating >= 4))

\* negativeCount after the loop of generateAnswer
NegativeCount(reviews) == Len(SelectSeq(reviews, LAMBDA r : r.Rating <= 2))

FormatTruncated(sum, n) ==
    LET t == (10 * sum) \div n
    IN  ToString(t \div 10) \o "." \o ToString(t % 10)

\* fmt.Sprintf("%.1f", float64(sum) / float64(n)) for sum >= 0, n > 0: the
\* decimal nearest to the float64 quotient, an exact tie going to the even
\* digit.  A quotient is an exact tie only at x.25 and x.75, which float64
\* holds exactly, unless n is a multiple of 20.
FormatOneDecimal(sum, n) ==
    LET q == (10 * sum) \div n
        r == (10 * sum) % n
        t == IF 2 * r < n THEN q
             ELSE IF 2 * r > n THEN q + 1
             ELSE IF q % 2 = 0 THEN q ELSE q + 1
    IN  ToString(t \div 10) \o "." \o ToString(t % 10)

generateAnswer(text, reviews) ==
    IF Len(reviews) = 0 THEN "No relevant reviews found to answer your query."
    ELSE
        LET positiveCount == PositiveCount(reviews)
            negativeCount == NegativeCount(reviews)
        IN  "Based on " \o ToString(Len(reviews)) \o " relevant reviews, "
            \o (IF positiveCount > negativeCount
                    THEN "the overall sentiment is positive. "
                ELSE IF negativeCount > positiveCount
                    THEN "the overall sentiment is negative. "
                ELSE "the sentiment is mixed. ")
            \o "The average rating is "
            \o FormatOneDecimal(SumRating(reviews), Len(reviews)) \o "/5. "
            \o "Here are the most relevant reviews that address your query."

calculateConfidenceNoFloor(reviews, MinConfidence) ==
    IF Len(reviews) = 0 THEN Frac(0, 1)
    ELSE Frac(SumSimilarity(reviews), Len(reviews))

calculateConfidence(reviews, MinConfidence) ==
    IF Len(reviews) = 0 THEN Frac(0, 1)
    ELSE
        LET confidence == Frac(SumSimilarity(reviews), Len(reviews))
        IN  IF FracLess(confidence, Frac(MinConfidence, 1))
            THEN Frac(MinConfidence, 1)
            ELSE confidence

buildEmptyResponseFloored(q, cfg) ==
    [Answer           |-> "No relevant reviews found for your query.",
     RetrievedReviews |-> <<>>,
     Confidence       |-> Frac(cfg.MinConfidence, 1),
     QueryHash        |-> GetQueryHash(q.Query)]

\* ProcessingTime, a wall-clock reading, is left out of the response
buildEmptyResponse(q, cfg) ==
    [Answer           |-> "No relevant reviews found for your query.",
     RetrievedReviews |-> <<>>,
     Confidence       |-> Frac(0, 1),
     QueryHash        |-> GetQueryHash(q.Query)]

buildResponseHashingAppID(q, reviews, cfg) ==
    [Answer           |-> generateAnswer(q.Query, reviews),
     RetrievedReviews |-> reviews,
     Confidence       |-> calculateConfidence(reviews, cfg.MinConfidence),
     QueryHash        |-> GetQueryHash(q.AppID)]

\* lines 57-69 of Query: the response for a non-empty retrieval
buildResponse(q, reviews, cfg) ==
    [Answer           |-> generateAnswer(q.Query, reviews),
     RetrievedReviews |-> reviews,
     Confidence       |-> calculateConfidence(reviews, cfg.MinConfidence),
     QueryHash        |-> GetQueryHash(q.Query)]

\* fmt.Errorf(stage + ": %w", cause)
Wrap(stage, cause) == [stage |-> stage, cause |-> cause]

(***************************************************************************)
(* RAGService.Query, one request per goroutine.  The request rests at the  *)
(* two blocking remote calls and at the two branches that follow them.     *)
(***************************************************************************)
TypeOK ==
    /\ config \in [TopK : TopKs \cup {5}, MinConfidence : MinConfidences]
    /\ clean_reviews \subseteq ReviewIDs
    /\ pc \in [Requests -> {"Idle", "Rejected", "Embedding", "Retrieving",
                            "Synthesizing", "EmptyResult", "Done", "Failed"}]
    /\ httpStatus \in [Requests -> {0, 200, 400, 405, 500}]
    /\ \A r \in Requests : embedCalls[r] \in 0..1 /\ retrievalCalls[r] \in 0..1

Init ==
    /\ config \in [TopK : TopKs, MinConfidence : MinConfidences]
    /\ clean_reviews \in SUBSET ReviewIDs
    /\ pc = [r \in Requests |-> "Idle"]
    /\ query = [r \in Requests |-> NoQuery]
    /\ queryEmbedding = [r \in Requests |-> <<>>]
    /\ retrievedReviews = [r \in Requests |-> <<>>]
    /\ response = [r \in Requests |-> Nil]
    /\ err = [r \in Requests |-> Nil]
    /\ embedCalls = [r \in Requests |-> 0]
    /\ retrievalCalls = [r \in Requests |-> 0]
    /\ mockReviews = <<>>
    /\ mockResponse = Nil
    /\ content_null = {}
    /\ storeCall = NoCall
    /\ storeResult = Nil
    /\ body = [r \in Requests |-> NoBody]
    /\ ctxErr = [r \in Requests |-> ""]
    /\ httpStatus = [r \in Requests |-> 0]
    /\ encodeFailed = [r \in Requests |-> FALSE]

StartCoalesced(r) ==
    /\ pc[r] = "Idle"
    /\ \E text \in Queries, appID \in AppIDs :
          /\ query' = [query EXCEPT ![r] = [Query |-> text, AppID |-> appID]]
          /\ embedCalls' = [embedCalls EXCEPT ![r] =
                IF \E o \in Requests \ {r} : pc[o] # "Idle" /\ query[o].Query = text
                THEN @ ELSE @ + 1]
    /\ pc' = [pc EXCEPT ![r] = "Embedding"]
    /\ UNCHANGED <<config, clean_reviews, queryEmbedding, retrievedReviews,
                   response, err, retrievalCalls, mockVars, content_null, storeVars, httpVars>>

\* Query is entered and calls s.embedClient.GenerateEmbedding(ctx, query.Query)
Start(r) ==
    /\ pc[r] = "Idle"
    /\ \E text \in Queries, appID \in AppIDs :
          query' = [query EXCEPT ![r] = [Query |-> text, AppID |-> appID]]
    /\ embedCalls' = [embedCalls EXCEPT ![r] = @ + 1]
    /\ pc' = [pc EXCEPT ![r] = "Embedding"]
    /\ UNCHANGED <<config, clean_reviews, queryEmbedding, retrievedReviews,
                   response, err, retrievalCalls, mockVars, content_null, storeVars, httpVars>>

EmbeddingSucceedsIgnoringCtx(r) ==
    /\ pc[r] = "Embedding"
    /\ \E vec \in QueryVecs : queryEmbedding' = [queryEmbedding EXCEPT ![r] = vec]
    /\ retrievalCalls' = [retrievalCalls EXCEPT ![r] = @ + 1]
    /\ pc' = [pc EXCEPT ![r] = "Retrieving"]
    /\ UNCHANGED <<config, clean_reviews, query, retrievedReviews, response, err,
                   embedCalls, mockVars, content_null, storeVars, httpVars>>

\* GenerateEmbedding returns a vector; Query calls s.repo.RAGRetrieval.
\* The HTTP request carries ctx (http.NewRequestWithContext), so it cannot
\* complete once ctx is done.
EmbeddingSucceeds(r) ==
    /\ pc[r] = "Embedding"
    /\ ctxErr[r] = ""
    /\ \E vec \in QueryVecs : queryEmbedding' = [queryEmbedding EXCEPT ![r] = vec]
    /\ retrievalCalls' = [retrievalCalls EXCEPT ![r] = @ + 1]
    /\ pc' = [pc EXCEPT ![r] = "Retrieving"]
    /\ UNCHANGED <<config, clean_reviews, query, retrievedReviews, response, err,
                   embedCalls, mockVars, content_null, storeVars, httpVars>>

EmbeddingFailsThenRetrieves(r) ==
    /\ pc[r] = "Embedding"
    /\ \E cause \in EmbedCauses :
          err' = [err EXCEPT ![r] = Wrap("failed to generate embedding", cause)]
    /\ retrievalCalls' = [retrievalCalls EXCEPT ![r] = @ + 1]
    /\ pc' = [pc EXCEPT ![r] = "Failed"]
    /\ UNCHANGED <<config, clean_reviews, query, queryEmbedding, retrievedReviews,
                   response, embedCalls, mockVars, content_null, storeVars, httpVars>>

\* GenerateEmbedding returns an error; Query returns nil and the wrapped error
EmbeddingFails(r) ==
    /\ pc[r] = "Embedding"
    /\ \E cause \in EmbedCauses :
          err' = [err EXCEPT ![r] = Wrap("failed to generate embedding", cause)]
    /\ pc' = [pc EXCEPT ![r] = "Failed"]
    /\ UNCHANGED <<config, clean_reviews, query, queryEmbedding, retrievedReviews,
                   response, embedCalls, retrievalCalls, mockVars, content_null, storeVars, httpVars>>

RetrievalSucceedsNoEmptyBranch(r) ==
    /\ pc[r] = "Retrieving"
    /\ ctxErr[r] = ""
    /\ \E rows \in RAGRetrieval(clean_reviews, content_null, queryEmbedding[r],
                                config.TopK, query[r].AppID) :
          retrievedReviews' = [retrievedReviews EXCEPT ![r] = rows]
    /\ pc' = [pc EXCEPT ![r] = "Synthesizing"]
    /\ UNCHANGED <<config, clean_reviews, query, queryEmbedding, response, err,
                   embedCalls, retrievalCalls, mockVars, content_null, storeVars, httpVars>>

\* RAGRetrieval returns rows; Query branches on len(retrievedReviews) == 0
RetrievalSucceeds(r) ==
    /\ pc[r] = "Retrieving"
    /\ ctxErr[r] = ""
    /\ \E rows \in RAGRetrieval(clean_reviews, content_null, queryEmbedding[r],
                                config.TopK, query[r].AppID) :
          /\ retrievedReviews' = [retrievedReviews EXCEPT ![r] = rows]
          /\ pc' = [pc EXCEPT ![r] =
                        IF Len(rows) = 0 THEN "EmptyResult" ELSE "Synthesizing"]
    /\ UNCHANGED <<config, clean_reviews, query, queryEmbedding, response, err,
                   embedCalls, retrievalCalls, mockVars, content_null, storeVars, httpVars>>

RetrievalFailsAsEmbedding(r) ==
    /\ pc[r] = "Retrieving"
    /\ \E cause \in RetrievalCauses :
          err' = [err EXCEPT ![r] = Wrap("failed to generate embedding", cause)]
    /\ pc' = [pc EXCEPT ![r] = "Failed"]
    /\ UNCHANGED <<config, clean_reviews, query, queryEmbedding, retrievedReviews,
                   response, embedCalls, retrievalCalls, mockVars, content_null, storeVars, httpVars>>

\* RAGRetrieval returns an error; Query returns nil and the wrapped error
RetrievalFails(r) ==
    /\ pc[r] = "Retrieving"
    /\ \E cause \in RetrievalCauses \cup
                     RAGRetrievalScanErrors(clean_reviews, content_null,
                                            queryEmbedding[r], config.TopK,
                                            query[r].AppID) :
          err' = [err EXCEPT ![r] = Wrap("failed to retrieve reviews", cause)]
    /\ pc' = [pc EXCEPT ![r] = "Failed"]
    /\ UNCHANGED <<config, clean_reviews, query, queryEmbedding, retrievedReviews,
                   response, embedCalls, retrievalCalls, mockVars, content_null, storeVars, httpVars>>

\* return s.buildEmptyResponse(query, startTime), nil
BuildEmpty(r) ==
    /\ pc[r] = "EmptyResult"
    /\ response' = [response EXCEPT ![r] = buildEmptyResponse(query[r], config)]
    /\ pc' = [pc EXCEPT ![r] = "Done"]
    /\ UNCHANGED <<config, clean_reviews, query, queryEmbedding, retrievedReviews,
                   err, embedCalls, retrievalCalls, mockVars, content_null, storeVars, httpVars>>

\* generateAnswer, calculateConfidence and the returned RAGResponse
Synthesize(r) ==
    /\ pc[r] = "Synthesizing"
    /\ response' = [response EXCEPT ![r] =
                        buildResponse(query[r], retrievedReviews[r], config)]
    /\ pc' = [pc EXCEPT ![r] = "Done"]
    /\ UNCHANGED <<config, clean_reviews, query, queryEmbedding, retrievedReviews,
                   err, embedCalls, retrievalCalls, mockVars, content_null, storeVars, httpVars>>

Next ==
    \E r \in Requests :
        \/ Start(r)
        \/ EmbeddingSucceeds(r)
        \/ EmbeddingFails(r)
        \/ RetrievalSucceeds(r)
        \/ RetrievalFails(r)
        \/ BuildEmpty(r)
        \/ Synthesize(r)

Spec == Init /\ [][Next]_vars

(***************************************************************************)
(* RAGHandler.HandleRAGQuery (internal/handler/http.go): the request is    *)
(* decoded and validated, Query runs under a context with a timeout, and   *)
(* the outcome is written to the http.ResponseWriter.                      *)
(***************************************************************************)
\* validate:"max=1000" of RAGQuery.Query
MaxQueryLength == 1000

RECURSIVE Repeat(_, _)
Repeat(str, n) ==
    IF n = 0 THEN ""
    ELSE IF n % 2 = 0 THEN LET half == Repeat(str, n \div 2) IN half \o half
    ELSE str \o Repeat(str, n - 1)

\* a query text one character longer than the validator allows
LongQuery == Repeat("a", MaxQueryLength + 1)

\* the requests a client can send: any method; a body that is not JSON, or
\* a JSON object whose absent fields decode to ""
HTTPBodies ==
    {[method |-> "GET", json |-> "object", query |-> "", appId |-> ""],
     [method |-> "POST", json |-> "malformed", query |-> "", appId |-> ""]}
    \cup [method : {"POST"}, json : {"object"},
          query : Queries \cup {"", LongQuery}, appId : AppIDs]

\* ctx.Err() once the context is done
CtxErrors == {"context deadline exceeded", "context canceled"}

ValidateNoMax(b) == b.query # "" /\ b.appId # ""

\* h.validate.Struct(query): Query required,max=1000 and AppID required
Validate(b) == b.query # "" /\ Len(b.query) <= MaxQueryLength /\ b.appId # ""

\* w.WriteHeader(code): the first status written is the one sent; a later
\* call is ignored by net/http
WriteHeader(status, code) == IF status = 0 THEN code ELSE status

\* HandleRAGQuery from its entry to the call of Query: method check,
\* Decode, Validate, context.WithTimeout, and Query's call of
\* GenerateEmbedding
Handle(r) ==
    /\ pc[r] = "Idle"
    /\ \E b \in HTTPBodies :
          /\ body' = [body EXCEPT ![r] = b]
          /\ IF b.method # "POST"
             THEN /\ httpStatus' = [httpStatus EXCEPT ![r] = WriteHeader(@, 405)]
                  /\ pc' = [pc EXCEPT ![r] = "Rejected"]
                  /\ UNCHANGED <<query, embedCalls>>
             ELSE IF b.json = "malformed" \/ ~Validate(b)
             THEN /\ httpStatus' = [httpStatus EXCEPT ![r] = WriteHeader(@, 400)]
                  /\ pc' = [pc EXCEPT ![r] = "Rejected"]
                  /\ UNCHANGED <<query, embedCalls>>
             ELSE /\ query' = [query EXCEPT ![r] = [Query |-> b.query, AppID |-> b.appId]]
                  /\ embedCalls' = [embedCalls EXCEPT ![r] = @ + 1]
                  /\ pc' = [pc EXCEPT ![r] = "Embedding"]
                  /\ UNCHANGED httpStatus
    /\ UNCHANGED <<config, clean_reviews, queryEmbedding, retrievedReviews, response,
                   err, retrievalCalls, mockVars, content_null, storeVars,
                   ctxErr, encodeFailed>>

\* the 30 second timeout expires, or the client goes away, while the
\* embedding call or the retrieval call is in flight
CtxDone(r) ==
    /\ pc[r] \in {"Embedding", "Retrieving"}
    /\ body[r] # NoBody
    /\ ctxErr[r] = ""
    /\ \E e \in CtxErrors : ctxErr' = [ctxErr EXCEPT ![r] = e]
    /\ UNCHANGED <<config, clean_reviews, pipelineVars, mockVars, content_null,
                   storeVars, body, httpStatus, encodeFailed>>

\* c.httpClient.Do(req) returns the context's error
EmbeddingAborts(r) ==
    /\ pc[r] = "Embedding"
    /\ ctxErr[r] # ""
    /\ err' = [err EXCEPT ![r] = Wrap("failed to generate embedding", ctxErr[r])]
    /\ pc' = [pc EXCEPT ![r] = "Failed"]
    /\ UNCHANGED <<config, clean_reviews, query, queryEmbedding, retrievedReviews,
                   response, embedCalls, retrievalCalls, mockVars, content_null,
                   storeVars, httpVars>>

\* r.db.Query(ctx, ...) or the iteration of its rows returns the context's error
RetrievalAborts(r) ==
    /\ pc[r] = "Retrieving"
    /\ ctxErr[r] # ""
    /\ err' = [err EXCEPT ![r] = Wrap("failed to retrieve reviews", ctxErr[r])]
    /\ pc' = [pc EXCEPT ![r] = "Failed"]
    /\ UNCHANGED <<config, clean_reviews, query, queryEmbedding, retrievedReviews,
                   response, embedCalls, retrievalCalls, mockVars, content_null,
                   storeVars, httpVars>>

\* HandleRAGQuery after Query has returned: http.Error with status 500, or
\* WriteHeader(200) followed by Encode, whose failure leads to http.Error
Respond(r) ==
    /\ pc[r] \in {"Done", "Failed"}
    /\ body[r] # NoBody
    /\ httpStatus[r] = 0
    /\ IF err[r] # Nil
       THEN /\ httpStatus' = [httpStatus EXCEPT ![r] = WriteHeader(@, 500)]
            /\ UNCHANGED encodeFailed
       ELSE \E encodeErr \in BOOLEAN :
              /\ encodeFailed' = [encodeFailed EXCEPT ![r] = encodeErr]
              /\ httpStatus' = [httpStatus EXCEPT ![r] =
                    IF encodeErr THEN WriteHeader(WriteHeader(@, 200), 500)
                    ELSE WriteHeader(@, 200)]
    /\ UNCHANGED <<config, clean_reviews, pipelineVars, mockVars, content_null,
                   storeVars, body, ctxErr>>

\* rag.min_confidence of the service behind the handler, as in the tests
HandlerMinConfidence == 70

InitHTTP ==
    /\ config \in [TopK : TopKs, MinConfidence : {HandlerMinConfidence}]
    /\ clean_reviews \in SUBSET ReviewIDs
    /\ content_null = {}
    /\ pc = [r \in Requests |-> "Idle"]
    /\ query = [r \in Requests |-> NoQuery]
    /\ queryEmbedding = [r \in Requests |-> <<>>]
    /\ retrievedReviews = [r \in Requests |-> <<>>]
    /\ response = [r \in Requests |-> Nil]
    /\ err = [r \in Requests |-> Nil]
    /\ embedCalls = [r \in Requests |-> 0]
    /\ retrievalCalls = [r \in Requests |-> 0]
    /\ mockReviews = <<>>
    /\ mockResponse = Nil
    /\ storeCall = NoCall
    /\ storeResult = Nil
    /\ body = [r \in Requests |-> NoBody]
    /\ ctxErr = [r \in Requests |-> ""]
    /\ httpStatus = [r \in Requests |-> 0]
    /\ encodeFailed = [r \in Requests |-> FALSE]

NextHTTP ==
    \E r \in Requests :
        \/ Handle(r)
        \/ CtxDone(r)
        \/ EmbeddingSucceeds(r)
        \/ EmbeddingFails(r)
        \/ EmbeddingAborts(r)
        \/ RetrievalSucceeds(r)
        \/ RetrievalFails(r)
        \/ RetrievalAborts(r)
        \/ BuildEmpty(r)
        \/ Synthesize(r)
        \/ Respond(r)

SpecHTTP == InitHTTP /\ [][NextHTTP]_vars

\* the handler in front of an empty store or of a full one
InitDeadline == InitHTTP /\ clean_reviews \in {{}, ReviewIDs}

\* net/http and pgx give up a call whose context is done
SpecHTTPFair ==
    /\ InitDeadline /\ [][NextHTTP]_vars
    /\ \A r \in Requests : WF_vars(EmbeddingAborts(r)) /\ WF_vars(RetrievalAborts(r))

(***************************************************************************)
(* Query against MockEmbeddingClient and MockRepository, as the tests of   *)
(* the service run it: the repository returns a scripted list of reviews.  *)
(***************************************************************************)
\* the query of the tests
MockQueryArg == [Query |-> "What do users think about the app?", AppID |-> "com.test.app"]

\* TopK of the RAGConfig of the tests
MockTopK == 5

MockReview(n, rating, similarity) ==
    [ID |-> n, AppID |-> "com.test.app", Rating |-> rating,
     Distance |-> Scale - similarity, Similarity |-> similarity]

\* the list mockRepo.On("RAGRetrieval", ...).Return(list, nil) scripts from
\* the ratings and similarities f
MockList(f) == [n \in DOMAIN f |-> MockReview(n, f[n][1], f[n][2])]

InitMock ==
    /\ config \in [TopK : {MockTopK}, MinConfidence : MinConfidences]
    /\ clean_reviews = {}
    /\ pc = [r \in Requests |-> "Idle"]
    /\ query = [r \in Requests |-> NoQuery]
    /\ queryEmbedding = [r \in Requests |-> <<>>]
    /\ retrievedReviews = [r \in Requests |-> <<>>]
    /\ response = [r \in Requests |-> Nil]
    /\ err = [r \in Requests |-> Nil]
    /\ embedCalls = [r \in Requests |-> 0]
    /\ retrievalCalls = [r \in Requests |-> 0]
    /\ \E len \in 0..MaxLen :
          \E f \in [1..len -> MockRatings \X MockSimilarities] :
              mockReviews = MockList(f)
    /\ mockResponse = Nil
    /\ content_null = {}
    /\ storeCall = NoCall
    /\ storeResult = Nil
    /\ body = [r \in Requests |-> NoBody]
    /\ ctxErr = [r \in Requests |-> ""]
    /\ httpStatus = [r \in Requests |-> 0]
    /\ encodeFailed = [r \in Requests |-> FALSE]

\* service.Query(ctx, query) with both mocks succeeding
MockQuery ==
    /\ mockResponse = Nil
    /\ mockResponse' = IF Len(mockReviews) = 0
                       THEN buildEmptyResponse(MockQueryArg, config)
                       ELSE buildResponse(MockQueryArg, mockReviews, config)
    /\ UNCHANGED <<config, clean_reviews, pipelineVars, mockReviews,
                   content_null, storeVars, httpVars>>

NextMock == MockQuery

SpecMock == InitMock /\ [][NextMock]_vars

(***************************************************************************)
(* The repository called on its own, against a database that is up: the    *)
(* outcome of a call follows from the statement and the rows of the tables.*)
(***************************************************************************)
\* topK / topN arguments of the calls
LimitArgs == {0, 1, 2}

\* review ids a caller can ask for: those the table can hold and one more
IDArgs == 1..(MaxRows + 1)

InitStore ==
    /\ config \in [TopK : {0}, MinConfidence : {0}]
    /\ clean_reviews \in SUBSET ReviewIDs
    /\ content_null \in SUBSET clean_reviews
    /\ pc = [r \in Requests |-> "Idle"]
    /\ query = [r \in Requests |-> NoQuery]
    /\ queryEmbedding = [r \in Requests |-> <<>>]
    /\ retrievedReviews = [r \in Requests |-> <<>>]
    /\ response = [r \in Requests |-> Nil]
    /\ err = [r \in Requests |-> Nil]
    /\ embedCalls = [r \in Requests |-> 0]
    /\ retrievalCalls = [r \in Requests |-> 0]
    /\ mockReviews = <<>>
    /\ mockResponse = Nil
    /\ storeCall = NoCall
    /\ storeResult = Nil
    /\ body = [r \in Requests |-> NoBody]
    /\ ctxErr = [r \in Requests |-> ""]
    /\ httpStatus = [r \in Requests |-> 0]
    /\ encodeFailed = [r \in Requests |-> FALSE]

\* repo.RAGRetrieval(ctx, queryEmbedding, topK, appID)
CallRAGRetrieval ==
    /\ \E vec \in QueryVecs, topK \in LimitArgs, appID \in AppIDs :
          /\ storeCall' = [op |-> "RAGRetrieval", queryEmbedding |-> vec,
                           topK |-> topK, appID |-> appID]
          /\ \/ \E rows \in RAGRetrieval(clean_reviews, content_null, vec, topK, appID) :
                   storeResult' = [reviews |-> rows, err |-> Nil]
             \/ \E cause \in RAGRetrievalScanErrors(clean_reviews, content_null,
                                                    vec, topK, appID) :
                   storeResult' = [reviews |-> <<>>, err |-> StoreError(cause)]
    /\ UNCHANGED <<config, clean_reviews, content_null, pipelineVars, mockVars, httpVars>>

\* repo.SearchSimilarReviews(ctx, queryEmbedding, appID, topN, annProbes)
CallSearchSimilarReviews ==
    /\ \E vec \in QueryVecs, topN \in LimitArgs \ {0}, appID \in AppIDs :
          /\ storeCall' = [op |-> "SearchSimilarReviews", queryEmbedding |-> vec,
                           topN |-> topN, appID |-> appID]
          /\ storeResult' \in SearchSimilarReviews(vec, appID, topN)
    /\ UNCHANGED <<config, clean_reviews, content_null, pipelineVars, mockVars, httpVars>>

\* repo.GetReviewDetails(ctx, reviewIDs)
CallGetReviewDetails ==
    /\ \E len \in 0..MaxIDs :
          \E ids \in [1..len -> IDArgs] :
              /\ storeCall' = [op |-> "GetReviewDetails", reviewIDs |-> ids]
              /\ storeResult' = GetReviewDetails(clean_reviews, content_null, ids)
    /\ UNCHANGED <<config, clean_reviews, content_null, pipelineVars, mockVars, httpVars>>

NextStore ==
    \/ CallRAGRetrieval
    \/ CallSearchSimilarReviews
    \/ CallGetReviewDetails

SpecStore == InitStore /\ [][NextStore]_vars

(***************************************************************************)
(* Properties                                                              *)
(***************************************************************************)
\* the request's GenerateEmbedding call failed
EmbeddingFailed(r) == pc[r] = "Failed" /\ queryEmbedding[r] = <<>>

\* the request's embedding succeeded and its RAGRetrieval call failed
RetrievalFailed(r) == pc[r] = "Failed" /\ queryEmbedding[r] # <<>>

\* Query returned a response and no error
Succeeded(r) == pc[r] = "Done" /\ response[r] # Nil /\ err[r] = Nil

\* C1: when GenerateEmbedding fails, RAGRetrieval is invoked zero times for
\* that request and Query returns an error and a nil response.
C1_EmbeddingFailureShortCircuits ==
    \A r \in Requests :
        EmbeddingFailed(r) =>
            /\ retrievalCalls[r] = 0
            /\ response[r] = Nil
            /\ err[r] # Nil

C1_Witness ==
    \E r \in Requests : EmbeddingFailed(r) /\ embedCalls[r] = 1

\* C2: when embedding succeeds and RAGRetrieval returns zero reviews, Query
\* succeeds with the sentinel answer, confidence exactly 0.0 whatever the
\* MinConfidence floor, and an empty retrievedReviews list.
C2_EmptyRetrievalResponse ==
    \A r \in Requests :
        (pc[r] = "Done" /\ retrievedReviews[r] = <<>>) =>
            /\ err[r] = Nil
            /\ response[r] # Nil
            /\ response[r].Answer = "No relevant reviews found for your query."
            /\ response[r].Confidence = [num |-> 0, den |-> 1]
            /\ response[r].RetrievedReviews = <<>>

C2_Witness ==
    \E r \in Requests :
        /\ pc[r] = "Done" /\ retrievedReviews[r] = <<>>
        /\ retrievalCalls[r] = 1
        /\ config.MinConfidence > 0

\* the similarities of a list of reviews, summed by index
SimilarityTotal(reviews) ==
    LET RECURSIVE upto(_)
        upto(n) == IF n = 0 THEN 0 ELSE reviews[n].Similarity + upto(n - 1)
    IN  upto(Len(reviews))

\* the fraction c equals max(total / n, floor), all in hundredths
IsFlooredMean(c, total, n, floor) ==
    IF total >= floor * n
    THEN c.num * n = total * c.den
    ELSE c.num = floor * c.den

\* C3: for every non-empty retrieved set, the confidence of Query's response
\* is max(mean similarity of all retrieved reviews, MinConfidence).
C3_ConfidenceIsFlooredMean ==
    (mockResponse # Nil /\ Len(mockReviews) >= 1) =>
        IsFlooredMean(mockResponse.Confidence, SimilarityTotal(mockReviews),
                      Len(mockReviews), config.MinConfidence)

C3_Witness ==
    /\ mockResponse # Nil
    /\ Len(mockReviews) = 2
    /\ mockReviews[1].Similarity = 90 /\ mockReviews[2].Similarity = 80
    /\ config.MinConfidence = 70
    /\ mockResponse.Confidence = [num |-> 85, den |-> 1]

\* C4: in every successful response with at least one retrieved review,
\* confidence lies within [MinConfidence, 1.0].
C4_ConfidenceInRange ==
    \A r \in Requests :
        (Succeeded(r) /\ Len(retrievedReviews[r]) >= 1) =>
            /\ FracLeq([num |-> config.MinConfidence, den |-> 1], response[r].Confidence)
            /\ FracLeq(response[r].Confidence, [num |-> Scale, den |-> 1])

\* RAGRetrieval has returned to the request without error
Retrieved(r) == pc[r] \in {"Synthesizing", "EmptyResult", "Done"}

\* C5: for a non-empty tenant id, every review returned by RAGRetrieval, and
\* every review of Query's response, belongs to that tenant id.
C5_NoCrossTenantReview ==
    \A r \in Requests :
        (Retrieved(r) /\ query[r].AppID # "") =>
            /\ \A n \in 1..Len(retrievedReviews[r]) :
                  /\ retrievedReviews[r][n].AppID = query[r].AppID
                  /\ AppOf(retrievedReviews[r][n].ID) = query[r].AppID
            /\ response[r] # Nil =>
                  \A n \in 1..Len(response[r].RetrievedReviews) :
                      response[r].RetrievedReviews[n].AppID = query[r].AppID

C5_Witness ==
    \E r \in Requests :
        /\ Succeeded(r)
        /\ query[r].AppID # ""
        /\ Len(response[r].RetrievedReviews) >= 1
        /\ \E i \in clean_reviews : AppOf(i) # query[r].AppID

\* ids of a list of reviews
IDsOf(reviews) == [n \in 1..Len(reviews) |-> reviews[n].ID]

\* s lists the k nearest (all, when fewer) of the review ids S by ascending
\* distance to queryVec
IsTopKNearest(s, S, k, queryVec) ==
    LET d(i) == CosineDistance(VecOf(i), queryVec)
    IN  /\ Len(s) = (IF Cardinality(S) < k THEN Cardinality(S) ELSE k)
        /\ \A n \in 1..Len(s) : s[n] \in S
        /\ \A m, n \in 1..Len(s) : m < n => s[m] # s[n] /\ d(s[m]) <= d(s[n])
        /\ \A i \in S : (\A n \in 1..Len(s) : s[n] # i) =>
               \A n \in 1..Len(s) : d(s[n]) <= d(i)

\* C6: with an empty tenant id the search is unscoped: the result is the
\* topK nearest reviews over the reviews of all tenants.
C6_EmptyTenantUnscoped ==
    \A r \in Requests :
        (Retrieved(r) /\ query[r].AppID = "") =>
            IsTopKNearest(IDsOf(retrievedReviews[r]), clean_reviews,
                          IF config.TopK <= 0 THEN 20 ELSE config.TopK,
                          queryEmbedding[r])

\* C7: when embedding succeeds and RAGRetrieval fails, Query returns nil and
\* an error that wraps the cause and names the retrieval stage, distinct
\* from the error of an embedding-stage failure.
C7_RetrievalFailureWrapped ==
    \A r \in Requests :
        RetrievalFailed(r) =>
            /\ response[r] = Nil
            /\ err[r] # Nil
            /\ err[r].stage = "failed to retrieve reviews"
            /\ err[r].cause \in RetrievalCauses
            /\ \A e \in Requests : EmbeddingFailed(e) => err[e].stage # err[r].stage

C7_Witness ==
    \E r, e \in Requests :
        /\ RetrievalFailed(r) /\ retrievalCalls[r] = 1
        /\ EmbeddingFailed(e)

\* ratings of a list of reviews
RatingsOf(reviews) == [n \in 1..Len(reviews) |-> reviews[n].Rating]

\* number of positions of the rating list whose rating is in the set S
CountIn(ratings, S) == Cardinality({n \in 1..Len(ratings) : ratings[n] \in S})

RatingTotal(ratings) ==
    LET RECURSIVE upto(_)
        upto(n) == IF n = 0 THEN 0 ELSE ratings[n] + upto(n - 1)
    IN  upto(Len(ratings))

\* the one-decimal numerals "w.d" whose value is a nearest tenth of total / n
NearestOneDecimal(total, n) ==
    {ToString(t \div 10) \o "." \o ToString(t % 10) :
        t \in {u \in 0..50 : 2 * Abs(10 * total - u * n) <= n}}

\* the sentence of the answer that states the sentiment word
SentimentSentences(word) ==
    {"the overall sentiment is " \o word \o ". ", "the sentiment is " \o word \o ". "}

\* the answer template: count, sentiment sentence, mean rating, closing
AnswerText(n, sentence, numeral) ==
    "Based on " \o ToString(n) \o " relevant reviews, " \o sentence
    \o "The average rating is " \o numeral \o "/5. "
    \o "Here are the most relevant reviews that address your query."

\* the answer is the template stating the given sentiment word
States(answer, word, ratings) ==
    \E sentence \in SentimentSentences(word) :
        \E numeral \in NearestOneDecimal(RatingTotal(ratings), Len(ratings)) :
            answer = AnswerText(Len(ratings), sentence, numeral)

\* C8: for a non-empty list with ratings in 1..5 the answer states "positive"
\* iff more reviews have rating >= 4 than rating <= 2, "negative" iff fewer,
\* "mixed" iff the counts are equal; rating 3 counts toward neither.
C8_SentimentByStrictMajority ==
    (mockResponse # Nil /\ Len(mockReviews) >= 1) =>
        LET ratings == RatingsOf(mockReviews)
            pos == CountIn(ratings, {4, 5})
            neg == CountIn(ratings, {1, 2})
        IN  /\ States(mockResponse.Answer, "positive", ratings) <=> pos > neg
            /\ States(mockResponse.Answer, "negative", ratings) <=> pos < neg
            /\ States(mockResponse.Answer, "mixed", ratings) <=> pos = neg

C8_Witness ==
    /\ mockResponse # Nil
    /\ RatingsOf(mockReviews) = <<4, 3, 2>>
    /\ States(mockResponse.Answer, "mixed", <<4, 3, 2>>)

\* C9: for a non-empty list the answer reports the mean of the ratings of
\* all retrieved reviews rounded to one decimal and followed by "/5";
\* [5,4,3] gives "4.0/5" and [5,4] gives "4.5/5".
C9_MeanRatingOneDecimal ==
    (mockResponse # Nil /\ Len(mockReviews) >= 1) =>
        LET ratings == RatingsOf(mockReviews)
        IN  /\ \E word \in {"positive", "negative", "mixed"} :
                  States(mockResponse.Answer, word, ratings)
            /\ ratings = <<5, 4, 3>> =>
                  \E word \in {"positive", "negative", "mixed"} :
                     \E sentence \in SentimentSentences(word) :
                       mockResponse.Answer = AnswerText(3, sentence, "4.0")
            /\ ratings = <<5, 4>> =>
                  \E word \in {"positive", "negative", "mixed"} :
                     \E sentence \in SentimentSentences(word) :
                       mockResponse.Answer = AnswerText(2, sentence, "4.5")

C9_Witness ==
    /\ mockResponse # Nil
    /\ RatingsOf(mockReviews) = <<5, 5, 3>>
    /\ mockResponse.Answer =
          AnswerText(3, "the overall sentiment is positive. ", "4.3")

\* C10: any two successful Query calls with identical query text return the
\* identical queryHash, the SHA-256 of that text, whatever their tenant ids
\* and whether retrieval was empty or not.
C10_QueryHashOfTextOnly ==
    \A r1, r2 \in Requests :
        (Succeeded(r1) /\ Succeeded(r2) /\ query[r1].Query = query[r2].Query) =>
            /\ response[r1].QueryHash = response[r2].QueryHash
            /\ response[r1].QueryHash = Sha256Hex(query[r1].Query)

C10_Witness ==
    \E r1, r2 \in Requests :
        /\ Succeeded(r1) /\ Succeeded(r2)
        /\ query[r1].Query = query[r2].Query
        /\ query[r1].AppID # query[r2].AppID
        /\ retrievedReviews[r1] = <<>> /\ retrievedReviews[r2] # <<>>
        /\ response[r1].QueryHash = response[r2].QueryHash

\* the last repository call was op and it returned reviews
Produced(op) == storeCall.op = op /\ storeResult.err = Nil

\* C11: every RetrievedReview produced by RAGRetrieval or by
\* SearchSimilarReviews has similarity = 1 - distance: Similarity and
\* Distance sum to 1.
C11_SimilarityPlusDistanceIsOne ==
    \A op \in {"RAGRetrieval", "SearchSimilarReviews"} :
        Produced(op) =>
            \A n \in 1..Len(storeResult.reviews) :
                storeResult.reviews[n].Similarity + storeResult.reviews[n].Distance = Scale

\* the ids of a list, as a set
IDSet(ids) == {ids[n] : n \in 1..Len(ids)}

\* C12: GetReviewDetails returns an empty mapping and no error for an empty
\* list; otherwise it returns without error a mapping whose keys are exactly
\* the input ids that exist in the store.
C12_DetailsOfExistingIDs ==
    storeCall.op = "GetReviewDetails" =>
        /\ storeResult.err = Nil
        /\ DOMAIN storeResult.details = IDSet(storeCall.reviewIDs) \cap clean_reviews
        /\ \A i \in DOMAIN storeResult.details : storeResult.details[i].ID = i

\* C16: a matching row whose content_clean is NULL does not make
\* RAGRetrieval fail, and the review's content falls back to another
\* content field of the row.
C16_NullContentTolerated ==
    storeCall.op = "RAGRetrieval" =>
        /\ storeResult.err = Nil
        /\ \A n \in 1..Len(storeResult.reviews) :
              storeResult.reviews[n].ID \in content_null =>
                  storeResult.reviews[n].Content = ContentEnOf(storeResult.reviews[n].ID)

(***************************************************************************)
(* The handler and the request context                                     *)
(***************************************************************************)
\* the context of request r ended while one of its remote calls was in flight
CtxEnded(r) == ctxErr[r] # ""

\* a request whose context has ended has no response, is still in the call
\* that was in flight or has failed, and is answered, if at all, with 500
CtxEndedNeverSucceeds ==
    \A r \in Requests :
        CtxEnded(r) =>
            /\ response[r] = Nil
            /\ pc[r] \in {"Embedding", "Retrieving", "Failed"}
            /\ pc[r] = "Failed" => err[r] # Nil
            /\ httpStatus[r] \in {0, 500}

\* once the context has ended the request only moves to Failed, and no
\* further remote call is issued for it
CtxEndedNoLaterStage ==
    \A r \in Requests :
        CtxEnded(r) =>
            /\ pc'[r] \in {pc[r], "Failed"}
            /\ embedCalls'[r] = embedCalls[r]
            /\ retrievalCalls'[r] = retrievalCalls[r]
            /\ queryEmbedding'[r] = queryEmbedding[r]
            /\ retrievedReviews'[r] = retrievedReviews[r]

\* C13: if the deadline expires or the caller cancels while the embedding
\* call or the retrieval call is in flight, the call is aborted and the
\* request eventually ends in failure with an error; it never starts a
\* later pipeline stage and never returns a success response.
C13_ContextEndAbortsRequest ==
    /\ []CtxEndedNeverSucceeds
    /\ [][CtxEndedNoLaterStage]_vars
    /\ \A r \in Requests : CtxEnded(r) ~> (pc[r] = "Failed" /\ err[r] # Nil)

\* one request timed out during the embedding call and failed without a
\* retrieval call, the other was cancelled during retrieval and failed
C13_Witness ==
    \E r1, r2 \in Requests :
        /\ ctxErr[r1] = "context deadline exceeded"
        /\ pc[r1] = "Failed"
        /\ err[r1] = Wrap("failed to generate embedding", "context deadline exceeded")
        /\ retrievalCalls[r1] = 0
        /\ ctxErr[r2] = "context canceled"
        /\ pc[r2] = "Failed"
        /\ err[r2] = Wrap("failed to retrieve reviews", "context canceled")
        /\ httpStatus[r2] = 500

\* the request r carried a POST whose body the handler must refuse
BadRequest(r) ==
    /\ body[r].method = "POST"
    /\ \/ body[r].json = "malformed"
       \/ body[r].query = ""
       \/ Len(body[r].query) > 1000
       \/ body[r].appId = ""

\* the handler has written a status for request r
Answered(r) == httpStatus[r] # 0

\* C14: a POST whose body is malformed JSON or fails validation (query
\* missing or longer than 1000 characters, appId missing) is answered with
\* 400 and causes no embedding or retrieval call; a request whose Query
\* returned an error is answered with 500, one whose Query succeeded
\* with 200.
C14_HandlerStatusCodes ==
    \A r \in Requests :
        /\ (body[r] # NoBody /\ BadRequest(r)) =>
               /\ httpStatus[r] = 400
               /\ embedCalls[r] = 0
               /\ retrievalCalls[r] = 0
               /\ response[r] = Nil /\ err[r] = Nil
        /\ (body[r] # NoBody /\ body[r].method = "POST" /\ ~BadRequest(r)) =>
               /\ httpStatus[r] # 400
               /\ embedCalls[r] = 1
               /\ (Answered(r) /\ err[r] # Nil) => httpStatus[r] = 500
               /\ (Answered(r) /\ response[r] # Nil) => httpStatus[r] = 200
               /\ Answered(r) => (err[r] # Nil \/ response[r] # Nil)

\* an over-long query was refused with 400 before any call, and another
\* request went through the pipeline and was answered with 200
C14_Witness ==
    \E r1, r2 \in Requests :
        /\ body[r1].method = "POST" /\ body[r1].json = "object"
        /\ Len(body[r1].query) = 1001 /\ body[r1].appId # ""
        /\ httpStatus[r1] = 400 /\ embedCalls[r1] = 0
        /\ response[r2] # Nil /\ httpStatus[r2] = 200

\* C15: if serialization of a successful pipeline response fails, the
\* status the client receives for that request is 500, not 200.
C15_EncodeFailureIs500 ==
    \A r \in Requests : encodeFailed[r] => httpStatus[r] = 500

(***************************************************************************)
(* The per-request state machine and the remote calls of concurrent        *)
(* requests                                                                *)
(***************************************************************************)
\* the edges of the per-request state machine; Idle -> Embedding is the
\* arrival of the request
Edges ==
    {<<"Idle", "Embedding">>,
     <<"Embedding", "Retrieving">>, <<"Retrieving", "Synthesizing">>,
     <<"Synthesizing", "Done">>,
     <<"Retrieving", "EmptyResult">>, <<"EmptyResult", "Done">>,
     <<"Embedding", "Failed">>, <<"Retrieving", "Failed">>}

MovesAlongEdges ==
    \A r \in Requests :
        /\ pc'[r] # pc[r] => <<pc[r], pc'[r]>> \in Edges
        /\ pc[r] \in {"Done", "Failed"} =>
               pc'[r] = pc[r] /\ response'[r] = response[r] /\ err'[r] = err[r]

StageOutcomes ==
    \A r \in Requests :
        /\ pc[r] = "Synthesizing" => Len(retrievedReviews[r]) >= 1
        /\ pc[r] = "EmptyResult" => Len(retrievedReviews[r]) = 0
        /\ pc[r] = "Done" => response[r] # Nil /\ err[r] = Nil
        /\ pc[r] = "Failed" => response[r] = Nil /\ err[r] # Nil
        /\ pc[r] \notin {"Done", "Failed"} => response[r] = Nil /\ err[r] = Nil

\* C17: a request moves only along Embedding -> Retrieving -> Synthesizing
\* -> Done, Retrieving -> EmptyResult -> Done, Embedding -> Failed and
\* Retrieving -> Failed; Synthesizing is entered only with at least one
\* retrieved review; Done and Failed are terminal; Query ends with a
\* response and no error, or with an error and no response.
C17_RequestStateMachine ==
    /\ []StageOutcomes
    /\ [][MovesAlongEdges]_vars

\* one request went through Synthesizing with reviews, the other took the
\* EmptyResult shortcut, and both are Done
C17_Witness ==
    \E r1, r2 \in Requests :
        /\ pc[r1] = "Done" /\ Len(retrievedReviews[r1]) >= 1
        /\ Len(response[r1].RetrievedReviews) >= 1
        /\ pc[r2] = "Done" /\ Len(retrievedReviews[r2]) = 0
        /\ response[r2] = buildEmptyResponse(query[r2], config)

RECURSIVE TotalCalls(_, _)
TotalCalls(calls, rs) ==
    IF rs = {} THEN 0
    ELSE LET r == CHOOSE x \in rs : TRUE
         IN  calls[r] + TotalCalls(calls, rs \ {r})

CallsPerRequest ==
    /\ \A r \in Requests :
          /\ embedCalls[r] = (IF pc[r] = "Idle" THEN 0 ELSE 1)
          /\ retrievalCalls[r] =
                (IF pc[r] \in {"Idle", "Embedding"} \/ EmbeddingFailed(r) THEN 0 ELSE 1)
    /\ (\A r \in Requests : pc[r] = "Done") =>
          /\ TotalCalls(embedCalls, Requests) = Cardinality(Requests)
          /\ TotalCalls(retrievalCalls, Requests) = Cardinality(Requests)

NoRetry ==
    \A r \in Requests :
        /\ embedCalls[r] >= 1 => embedCalls'[r] = embedCalls[r]
        /\ retrievalCalls[r] >= 1 => retrievalCalls'[r] = retrievalCalls[r]
        /\ pc[r] = "Failed" =>
               /\ pc'[r] = "Failed"
               /\ embedCalls'[r] = embedCalls[r]
               /\ retrievalCalls'[r] = retrievalCalls[r]
        /\ (pc[r] \in {"Embedding", "Retrieving"} /\ err'[r] # Nil) => pc'[r] = "Failed"

\* C18: under any interleaving each request issues its own embedding call
\* at most once and its own retrieval call at most once; a failed call is
\* not retried and ends the request; requests with identical text are not
\* coalesced, so N requests whose calls all succeed cause N embedding calls
\* and N retrieval calls.
C18_OneCallPerRequest ==
    /\ []CallsPerRequest
    /\ [][NoRetry]_vars

\* two requests with the same text and tenant are both Done after two
\* embedding calls and two retrieval calls
C18_Witness ==
    \E r1, r2 \in Requests :
        /\ r1 # r2
        /\ pc[r1] = "Done" /\ pc[r2] = "Done"
        /\ query[r1] = query[r2]
        /\ TotalCalls(embedCalls, Requests) = 2
        /\ TotalCalls(retrievalCalls, Requests) = 2

====
